---- MODULE Spec2Model ----
(***************************************************************************)
(* Model of src/app.py: the chunker (chunk_text), the output normalizer    *)
(* (extract_json_objects, extract_json_array, on top of Python's re and    *)
(* json.loads) and the two Flask handlers (pdf_directions, pdf_questions). *)
(*                                                                         *)
(* A Python str is a sequence of symbols.  Document text is spelled        *)
(* character by character.  Model output is spelled with one symbol per    *)
(* structural character ( { } [ ] , : " space - and each digit), one       *)
(* symbol for a Markdown fence, and one symbol per run of letters (a       *)
(* word): no regular expression of the code can match inside a word.       *)
(***************************************************************************)
EXTENDS Integers, Sequences, FiniteSets, TLC

VARIABLES
    \* chunk_text (a generator): its arguments, loop index and yields
    text, max_len, i, out, cpc,
    \* the normalizer under test: input, which function, how it ended
    frags, raw_text, shape, npc, result,
    \* one request through a handler
    endpoint, body, pc, full_text, chunk, raw_output, gen_raised,
    fetched, prompted, fetch_calls, gen_calls, response

chunkVars == <<text, max_len, i, out, cpc>>
normVars == <<frags, raw_text, shape, npc, result>>
reqVars == <<endpoint, body, pc, full_text, chunk, raw_output, gen_raised,
             fetched, prompted, fetch_calls, gen_calls, response>>
vars == <<chunkVars, normVars, reqVars>>

(* every variable of a part that is not running *)
IdleChunk ==
    /\ text = <<>> /\ max_len = 1 /\ i = 0 /\ out = <<>> /\ cpc = "idle"

IdleNorm ==
    /\ frags = <<>> /\ raw_text = <<>> /\ shape = "none" /\ npc = "idle"
    /\ result = <<>>

NoResponse == [status |-> 0]

IdleReq ==
    /\ endpoint = "none" /\ body = "none" /\ pc = "idle" /\ full_text = <<>>
    /\ chunk = <<>> /\ raw_output = <<>> /\ gen_raised = FALSE
    /\ fetched = FALSE /\ prompted = <<>>
    /\ fetch_calls = 0 /\ gen_calls = 0 /\ response = NoResponse

-----------------------------------------------------------------------------
(* Python str primitives *)

Min(a, b) == IF a < b THEN a ELSE b

Max(a, b) == IF a > b THEN a ELSE b

\* a slice bound as Python reads it: from the end when negative, clipped
SliceBound(s, x) == IF x < 0 THEN Max(x + Len(s), 0) ELSE Min(x, Len(s))

\* s[a:b] (0-based, end exclusive)
Slice(s, a, b) == SubSeq(s, SliceBound(s, a) + 1, SliceBound(s, b))

\* whether sub occurs in s at 0-based offset k
OccursAt(s, sub, k) ==
    /\ k + Len(sub) <= Len(s)
    /\ \A j \in 1..Len(sub) : s[k + j] = sub[j]

\* s.find(sub, start): lowest offset >= start where sub occurs, else -1
FindFrom(s, sub, start) ==
    LET hits == {k \in start..(Len(s) - Len(sub)) : OccursAt(s, sub, k)}
    IN IF hits = {} THEN -1 ELSE CHOOSE k \in hits : \A m \in hits : k <= m

find(s, sub) == FindFrom(s, sub, 0)

RECURSIVE Flatten(_)
Flatten(ss) == IF ss = <<>> THEN <<>> ELSE Head(ss) \o Flatten(Tail(ss))

\* all sequences over S of length 0..n
RECURSIVE SeqsUpTo(_, _)
SeqsUpTo(S, n) ==
    IF n = 0 THEN {<<>>}
    ELSE LET prev == SeqsUpTo(S, n - 1)
         IN prev \cup {Append(p, x) : p \in {r \in prev : Len(r) = n - 1}, x \in S}

-----------------------------------------------------------------------------
(* json.loads, as the normalizer uses it (src/app.py:99, 112, 118).        *)
(* A parsed value is tagged: int, str (its symbols), arr (its items), obj  *)
(* (its members in insertion order, one per key, as a Python dict).        *)

q == "\""
Whitespace == {" "}
Digits == {"0", "1", "5"}
DigitVal(d) == CASE d = "0" -> 0 [] d = "1" -> 1 [] d = "5" -> 5

\* CPython's decoder recurses once per nested array or object and raises
\* RecursionError past the interpreter's recursion limit (1000 by default;
\* scaled down here so that bounded inputs can exceed it).
RecursionLimit == 4

JInt(n) == [t |-> "int", v |-> n]
JStr(s) == [t |-> "str", v |-> s]
JArr(items) == [t |-> "arr", v |-> items]
JObj(members) == [t |-> "obj", v |-> members]

Ok(v, n) == [ok |-> TRUE, v |-> v, n |-> n, err |-> "none"]
Err(e) == [ok |-> FALSE, err |-> e]
DecodeError == Err("JSONDecodeError")

\* dict[key] = val: a repeated key keeps its place and takes the new value
DictSet(members, key, val) ==
    IF \E m \in 1..Len(members) : members[m].k = key
    THEN [m \in 1..Len(members) |->
            IF members[m].k = key THEN [k |-> key, val |-> val] ELSE members[m]]
    ELSE Append(members, [k |-> key, val |-> val])

\* key in dict
HasKey(obj, word) == \E m \in 1..Len(obj.v) : obj.v[m].k = <<word>>
Get(obj, word) == obj.v[CHOOSE m \in 1..Len(obj.v) : obj.v[m].k = <<word>>].val

\* first position >= p that holds no whitespace (Len(s) + 1 at the end)
SkipWs(s, p) ==
    LET stops == {k \in p..Len(s) : s[k] \notin Whitespace}
    IN IF stops = {} THEN Len(s) + 1
       ELSE CHOOSE k \in stops : \A m \in stops : k <= m

\* the string whose opening quote is at p - 1
ScanString(s, p) ==
    LET ends == {k \in p..Len(s) : s[k] = q}
    IN IF ends = {} THEN DecodeError
       ELSE LET e == CHOOSE k \in ends : \A m \in ends : k <= m
            IN Ok(JStr(SubSeq(s, p, e - 1)), e + 1)

RECURSIVE DigitsValue(_, _, _)
DigitsValue(s, a, b) ==
    IF a > b THEN 0 ELSE DigitsValue(s, a, b - 1) * 10 + DigitVal(s[b])

\* -?(0|[1-9][0-9]*) at p
ScanNumber(s, p) ==
    LET neg == s[p] = "-"
        d0 == IF neg THEN p + 1 ELSE p
    IN IF d0 > Len(s) \/ s[d0] \notin Digits THEN DecodeError
       ELSE LET stops == {k \in d0..Len(s) : s[k] \notin Digits}
                run == IF stops = {} THEN Len(s) + 1
                       ELSE CHOOSE k \in stops : \A m \in stops : k <= m
                e == IF s[d0] = "0" THEN d0 + 1 ELSE run
                n == DigitsValue(s, d0, e - 1)
            IN Ok(JInt(IF neg THEN 0 - n ELSE n), e)

RECURSIVE ParseValue(_, _, _)
RECURSIVE ParseMembers(_, _, _, _)
RECURSIVE ParseElements(_, _, _, _)

\* the members of an object, the next key expected at p
ParseMembers(s, p, depth, acc) ==
    IF p > Len(s) \/ s[p] # q THEN DecodeError
    ELSE LET key == ScanString(s, p + 1) IN
    IF ~key.ok THEN key
    ELSE LET colon == SkipWs(s, key.n) IN
    IF colon > Len(s) \/ s[colon] # ":" THEN DecodeError
    ELSE LET val == ParseValue(s, SkipWs(s, colon + 1), depth) IN
    IF ~val.ok THEN val
    ELSE LET nxt == SkipWs(s, val.n)
             members == DictSet(acc, key.v.v, val.v) IN
    IF nxt > Len(s) THEN DecodeError
    ELSE IF s[nxt] = "}" THEN Ok(JObj(members), nxt + 1)
    ELSE IF s[nxt] = "," THEN ParseMembers(s, SkipWs(s, nxt + 1), depth, members)
    ELSE DecodeError

\* the items of an array, the next item expected at p
ParseElements(s, p, depth, acc) ==
    LET val == ParseValue(s, p, depth) IN
    IF ~val.ok THEN val
    ELSE LET nxt == SkipWs(s, val.n)
             items == Append(acc, val.v) IN
    IF nxt > Len(s) THEN DecodeError
    ELSE IF s[nxt] = "]" THEN Ok(JArr(items), nxt + 1)
    ELSE IF s[nxt] = "," THEN ParseElements(s, SkipWs(s, nxt + 1), depth, items)
    ELSE DecodeError

\* scan_once at p, inside depth arrays and objects
ParseValue(s, p, depth) ==
    IF p > Len(s) THEN DecodeError
    ELSE IF s[p] = q THEN ScanString(s, p + 1)
    ELSE IF s[p] \in {"{", "["} THEN
        IF depth + 1 > RecursionLimit THEN Err("RecursionError")
        ELSE LET first == SkipWs(s, p + 1) IN
             IF first > Len(s) THEN DecodeError
             ELSE IF s[p] = "{"
                  THEN IF s[first] = "}" THEN Ok(JObj(<<>>), first + 1)
                       ELSE ParseMembers(s, first, depth + 1, <<>>)
                  ELSE IF s[first] = "]" THEN Ok(JArr(<<>>), first + 1)
                       ELSE ParseElements(s, first, depth + 1, <<>>)
    ELSE IF s[p] \in Digits \cup {"-"} THEN ScanNumber(s, p)
    ELSE DecodeError

\* json.loads(s): one value, whitespace around it, nothing else
json_loads(s) ==
    LET r == ParseValue(s, SkipWs(s, 1), 0) IN
    IF ~r.ok THEN r
    ELSE IF SkipWs(s, r.n) <= Len(s) THEN DecodeError
    ELSE r

-----------------------------------------------------------------------------
(* The regular expressions of the normalizer (all compiled with DOTALL).   *)

\* the Markdown fence (three backquotes) as one symbol
Fence == "FENCE"
NumberKey == <<q, "number", q>>
TextKey == <<q, "text", q>>
OptionsKey == <<q, "options", q>>

Least(S) == CHOOSE k \in S : \A m \in S : k <= m
Greatest(S) == CHOOSE k \in S : \A m \in S : k >= m

\* re.findall(r'\{.*?\}', s) from position p on: each match runs from the
\* next "{" to the first "}" after it, and the scan resumes after the match
RECURSIVE brace_matches(_, _)
brace_matches(s, p) ==
    LET opens == {k \in p..Len(s) : s[k] = "{"} IN
    IF opens = {} THEN <<>>
    ELSE LET a == Least(opens)
             closes == {k \in (a + 1)..Len(s) : s[k] = "}"} IN
         IF closes = {} THEN <<>>
         ELSE LET b == Least(closes)
              IN <<SubSeq(s, a, b)>> \o brace_matches(s, b + 1)

\* whether the substitution removes position k: a fence, or the word json
\* right after a fence
InFence(s, k) == s[k] = Fence \/ (s[k] = "json" /\ k > 1 /\ s[k - 1] = Fence)

\* re.sub(fence + 'json' + '|' + fence, '', s) on s[lo..hi]
RECURSIVE remove_fences_in(_, _, _)
remove_fences_in(s, lo, hi) ==
    IF lo > hi THEN <<>>
    ELSE IF lo = hi THEN IF InFence(s, lo) THEN <<>> ELSE <<s[lo]>>
    ELSE LET mid == (lo + hi) \div 2
         IN remove_fences_in(s, lo, mid) \o remove_fences_in(s, mid + 1, hi)

remove_fences(s) == remove_fences_in(s, 1, Len(s))

\* s.strip()
strip(s) ==
    LET keep == {k \in 1..Len(s) : s[k] \notin Whitespace}
    IN IF keep = {} THEN <<>> ELSE SubSeq(s, Least(keep), Greatest(keep))

\* where r'\}\s*\]' can match after position b: each "}" followed, after
\* whitespace, by "]"
ArrayEnds(s, b) ==
    {c \in (b + 1)..Len(s) :
        /\ s[c] = "}"
        /\ SkipWs(s, c + 1) <= Len(s)
        /\ s[SkipWs(s, c + 1)] = "]"}

\* re.search(r'\[\s*\{.*\}\s*\]', s): the leftmost "[" that is followed,
\* after whitespace, by "{" and has an end; the greedy .* takes the last end.
\* <<>> stands for no match (a match is never empty).
array_match(s) ==
    LET starts == {a \in 1..Len(s) :
                     /\ s[a] = "["
                     /\ SkipWs(s, a + 1) <= Len(s)
                     /\ s[SkipWs(s, a + 1)] = "{"
                     /\ ArrayEnds(s, SkipWs(s, a + 1)) # {}}
    IN IF starts = {} THEN <<>>
       ELSE LET a == Least(starts)
                c == Greatest(ArrayEnds(s, SkipWs(s, a + 1)))
            IN SubSeq(s, a, SkipWs(s, c + 1))

\* re.findall(r'\{\s*.*?"number".*?"text".*?"options".*?\}', s) from
\* position p on: from the next "{", the first "number" key after it, the
\* first "text" key after that, the first "options" key after that, and the
\* first "}" after that
RECURSIVE question_matches(_, _)
question_matches(s, p) ==
    LET opens == {k \in p..Len(s) : s[k] = "{"} IN
    IF opens = {} THEN <<>>
    ELSE LET a == Least(opens)
             p1 == FindFrom(s, NumberKey, a)
             p2 == IF p1 = -1 THEN -1 ELSE FindFrom(s, TextKey, p1 + 3)
             p3 == IF p2 = -1 THEN -1 ELSE FindFrom(s, OptionsKey, p2 + 3)
             closes == IF p3 = -1 THEN {}
                       ELSE {k \in (p3 + 4)..Len(s) : s[k] = "}"} IN
         IF closes = {} THEN <<>>
         ELSE LET b == Least(closes)
              IN <<SubSeq(s, a, b)>> \o question_matches(s, b + 1)

-----------------------------------------------------------------------------
(* extract_json_objects and extract_json_array.  A call either returns a   *)
(* list or raises: [raised, exc, value].                                   *)

Returned(v) == [raised |-> FALSE, exc |-> "none", value |-> v]
Raised(e) == [raised |-> TRUE, exc |-> e, value |-> <<>>]

\* isinstance(obj, dict) and "type" in obj and "from" in obj and "to" in obj
\* and "text" in obj
has_direction_keys(obj) ==
    /\ obj.t = "obj"
    /\ HasKey(obj, "type") /\ HasKey(obj, "from") /\ HasKey(obj, "to")
    /\ HasKey(obj, "text")

\* the for loop of extract_json_objects over matches[k..]: only
\* json.JSONDecodeError is caught, any other exception leaves the function
RECURSIVE collect_objects(_, _, _)
collect_objects(matches, k, valid_objects) ==
    IF k > Len(matches) THEN Returned(valid_objects)
    ELSE LET r == json_loads(matches[k]) IN
         IF ~r.ok
         THEN IF r.err = "JSONDecodeError"
              THEN collect_objects(matches, k + 1, valid_objects)
              ELSE Raised(r.err)
         ELSE collect_objects(matches, k + 1,
                  IF has_direction_keys(r.v) THEN Append(valid_objects, r.v)
                  ELSE valid_objects)

extract_json_objects(raw) == collect_objects(brace_matches(raw, 1), 1, <<>>)

\* the fallback loop of extract_json_array: the bare except skips a match
\* that does not parse, whatever it raised
RECURSIVE collect_questions(_, _, _)
collect_questions(objects, k, questions) ==
    IF k > Len(objects) THEN questions
    ELSE LET r == json_loads(objects[k]) IN
         collect_questions(objects, k + 1,
             IF r.ok THEN Append(questions, r.v) ELSE questions)

\* the whole body runs under try/except Exception: return []
extract_json_array(raw) ==
    LET cleaned == strip(remove_fences(raw))
        m == array_match(cleaned) IN
    IF m # <<>>
    THEN LET r == json_loads(m) IN
         IF r.ok THEN Returned(r.v.v) ELSE Returned(<<>>)
    ELSE Returned(collect_questions(question_matches(cleaned, 1), 1, <<>>))

-----------------------------------------------------------------------------
(* Model responses handed to the normalizer: up to MaxFrags pieces, each a *)
(* record in the format the prompts ask for (src/app.py:35-40, 65-76), a   *)
(* damaged one, or loose text.                                             *)

MaxFrags == 3

RECURSIVE JoinComma(_)
JoinComma(parts) ==
    IF parts = <<>> THEN <<>>
    ELSE IF Len(parts) = 1 THEN parts[1]
    ELSE parts[1] \o <<",">> \o JoinComma(Tail(parts))

Str(content) == <<q>> \o content \o <<q>>
Member(key, value) == Str(<<key>>) \o <<":">> \o value
Object(members) == <<"{">> \o JoinComma(members) \o <<"}">>
Array(items) == <<"[">> \o JoinComma(items) \o <<"]">>

DirectionObject(type, from, to, txt) ==
    Object(<<Member("type", type), Member("from", from), Member("to", to),
             Member("text", txt)>>)
QuestionObject(number, txt, options) ==
    Object(<<Member("number", number), Member("text", txt),
             Member("options", options)>>)

Description == Str(<<"description">>)
Options == Object(<<Member("a", Str(<<"x">>)), Member("b", Str(<<"y">>))>>)

\* {"type":"description","from":1,"to":5,"text":"x"}
D1 == DirectionObject(Description, <<"1">>, <<"5">>, Str(<<"x">>))
\* {"type":"description","from":5,"to":15,"text":"a"}
D2 == DirectionObject(Description, <<"5">>, <<"1", "5">>, Str(<<"a">>))
\* {"type":"description","from":1,"to":5,"text":"a}b"}
DBrace == DirectionObject(Description, <<"1">>, <<"5">>, Str(<<"a", "}", "b">>))
\* {"type":"description","from":1,"to":5,"text":"x","meta":{"a":1}}
DNested ==
    Object(<<Member("type", Description), Member("from", <<"1">>),
             Member("to", <<"5">>), Member("text", Str(<<"x">>)),
             Member("meta", Object(<<Member("a", <<"1">>)>>))>>)
\* {"type":"x","from":-1,"to":"a","text":""}
DBadTypes == DirectionObject(Str(<<"x">>), <<"-", "1">>, Str(<<"a">>), Str(<<>>))
\* {"type":"description","from":1}
DMissing == Object(<<Member("type", Description), Member("from", <<"1">>)>>)
\* {type: "description", from:1, to:5, text:"x",}
DUnquoted ==
    <<"{", "type", ":", " ">> \o Description \o <<",", " ", "from", ":", "1",
      ",", " ", "to", ":", "5", ",", " ", "text", ":">> \o Str(<<"x">>)
      \o <<",", "}">>
\* {"a":[[[[...}: nested one level deeper than the decoder's recursion limit
Deep == <<"{">> \o Str(<<"a">>) \o <<":">>
            \o [k \in 1..RecursionLimit |-> "["] \o <<"}">>

\* {"number":1,"text":"x","options":{"a":"x","b":"y"}}
Q1 == QuestionObject(<<"1">>, Str(<<"x">>), Options)
\* {"number":5,"text":"a","options":{"a":"x","b":"y"}}
Q5 == QuestionObject(<<"5">>, Str(<<"a">>), Options)
\* {"number":5,"text":"x","options":1}
QFlat == QuestionObject(<<"5">>, Str(<<"x">>), <<"1">>)
\* {"number":1}
QMissing == Object(<<Member("number", <<"1">>)>>)
\* a question whose text is "a}]b"
QBrace == QuestionObject(<<"1">>, Str(<<"a", "}", "]", "b">>), Options)

Fragments ==
    { D1, D2, DBrace, DNested, DBadTypes, DMissing, DUnquoted, Deep,
      Q1, QFlat, QMissing,
      Array(<<Q1, Q5>>), Array(<<Q1, QMissing>>), Array(<<QBrace>>),
      <<"Here">>, <<" ">>, <<"{">>, <<"}">>, <<"[">>, <<"]">>,
      <<Fence, "json">>, <<Fence>> }

InitNormalizer ==
    /\ frags \in SeqsUpTo(Fragments, MaxFrags)
    /\ raw_text = Flatten(frags)
    /\ shape = "none" /\ npc = "ready" /\ result = <<>>
    /\ IdleChunk /\ IdleReq

\* parsed = extract_json_objects(raw_output)
NormalizeObjects ==
    /\ npc = "ready"
    /\ LET r == extract_json_objects(raw_text) IN
       /\ npc' = IF r.raised THEN "raised" ELSE "returned"
       /\ result' = r.value
    /\ shape' = "objects"
    /\ UNCHANGED <<frags, raw_text, chunkVars, reqVars>>

\* parsed = extract_json_array(raw_output)
NormalizeArray ==
    /\ npc = "ready"
    /\ LET r == extract_json_array(raw_text) IN
       /\ npc' = IF r.raised THEN "raised" ELSE "returned"
       /\ result' = r.value
    /\ shape' = "array"
    /\ UNCHANGED <<frags, raw_text, chunkVars, reqVars>>

NextNormalizer == NormalizeObjects \/ NormalizeArray

SpecNormalizer == InitNormalizer /\ [][NextNormalizer]_vars

-----------------------------------------------------------------------------
(* The record schemas of the data model, and what a response is made of.   *)

\* {type: "description", from: int, to: int, text: string}: from <= to,
\* both non-negative, text non-empty
ValidDirection(rec) ==
    /\ rec.t = "obj"
    /\ HasKey(rec, "type") /\ HasKey(rec, "from") /\ HasKey(rec, "to")
    /\ HasKey(rec, "text")
    /\ Get(rec, "type").t = "str" /\ Get(rec, "type").v = <<"description">>
    /\ Get(rec, "from").t = "int" /\ Get(rec, "from").v >= 0
    /\ Get(rec, "to").t = "int" /\ Get(rec, "from").v <= Get(rec, "to").v
    /\ Get(rec, "text").t = "str" /\ Get(rec, "text").v # <<>>

\* {number: int > 0, text: non-empty string, options: mapping}
ValidQuestion(rec) ==
    /\ rec.t = "obj"
    /\ HasKey(rec, "number") /\ HasKey(rec, "text") /\ HasKey(rec, "options")
    /\ Get(rec, "number").t = "int" /\ Get(rec, "number").v > 0
    /\ Get(rec, "text").t = "str" /\ Get(rec, "text").v # <<>>
    /\ Get(rec, "options").t = "obj"

\* a piece that is, on its own, strictly valid JSON for a schema-valid
\* direction / for an array of records / for an array of valid questions
IsDirectionFrag(f) == json_loads(f).ok /\ ValidDirection(json_loads(f).v)
IsArrayFrag(f) == json_loads(f).ok /\ json_loads(f).v.t = "arr"
IsQuestionArrayFrag(f) ==
    /\ IsArrayFrag(f)
    /\ \A k \in 1..Len(json_loads(f).v.v) : ValidQuestion(json_loads(f).v.v[k])
ValuesOf(fs) == [k \in 1..Len(fs) |-> json_loads(fs[k]).v]

\* no "{" or "[" with a "}" or "]" after it
NoBracketPair(s) ==
    ~\E a \in 1..Len(s), b \in 1..Len(s) :
        a < b /\ s[a] \in {"{", "["} /\ s[b] \in {"}", "]"}

\* the record {type:"description", from:1, to:5, text:"x"}
RepairedRecord ==
    JObj(<<[k |-> <<"type">>, val |-> JStr(<<"description">>)],
           [k |-> <<"from">>, val |-> JInt(1)],
           [k |-> <<"to">>, val |-> JInt(5)],
           [k |-> <<"text">>, val |-> JStr(<<"x">>)]>>)

\* C2: every record the normalizer returns satisfies its schema (a direction
\* from extract_json_objects, a question from extract_json_array), and from
\* an array of candidate records exactly the schema-valid ones are returned.
C2_ReturnedRecordsSatisfySchema ==
    npc = "returned" =>
        /\ shape = "objects" =>
              \A k \in 1..Len(result) : ValidDirection(result[k])
        /\ shape = "array" =>
              \A k \in 1..Len(result) : ValidQuestion(result[k])
        /\ (shape = "array" /\ Len(frags) = 1 /\ IsArrayFrag(frags[1])) =>
              result = SelectSeq(json_loads(frags[1]).v.v, ValidQuestion)

\* C3: the direction record written with bare keys and a trailing comma,
\* {type: "description", from:1, to:5, text:"x",}, is repaired: exactly the
\* record type "description", from 1, to 5, text "x" is returned.
C3_UnquotedKeysTrailingCommaRepaired ==
    (shape = "objects" /\ npc # "ready" /\ frags = <<DUnquoted>>) =>
        /\ npc = "returned"
        /\ result = <<RepairedRecord>>

\* C4: on strictly valid output the normalizer is the identity: one or more
\* schema-valid direction objects come back from extract_json_objects, and a
\* JSON array of schema-valid questions from extract_json_array, as the same
\* records in the same order with the same values.
C4_IdentityOnValidOutput ==
    npc # "ready" =>
        /\ (/\ shape = "objects" /\ frags # <<>>
            /\ \A k \in 1..Len(frags) : IsDirectionFrag(frags[k])) =>
              npc = "returned" /\ result = ValuesOf(frags)
        /\ (shape = "array" /\ Len(frags) = 1 /\ IsQuestionArrayFrag(frags[1])) =>
              npc = "returned" /\ result = json_loads(frags[1]).v.v

\* C5: whatever malformed objects and prose surround them, the valid
\* direction objects of a response are all returned by extract_json_objects,
\* in order of appearance.
C5_EveryValidDirectionReturned ==
    (shape = "objects" /\ npc = "returned") =>
        SelectSeq(result, ValidDirection) = ValuesOf(SelectSeq(frags, IsDirectionFrag))

\* C6: neither function ever raises, and each returns the empty list for a
\* text without a bracket pair.
C6_NormalizationNeverRaises ==
    /\ npc # "raised"
    /\ (npc = "returned" /\ NoBracketPair(raw_text)) => result = <<>>

-----------------------------------------------------------------------------
(* chunk_text(text, max_len): for i in range(0, len(text), max_len):       *)
(*                                yield text[i:i + max_len]                *)

MaxTextLen == 5
MaxChunkLen == 4
ChunkAlphabet == {"a", "b"}

InitChunk ==
    /\ text \in SeqsUpTo(ChunkAlphabet, MaxTextLen)
    /\ max_len \in 1..MaxChunkLen
    /\ i = 0 /\ out = <<>> /\ cpc = "iter"
    /\ IdleNorm /\ IdleReq

\* the fragment text[i:i + max_len] of one iteration
chunk_fragment(t, k, n) == Slice(t, k, k + n)

\* the next value of range(0, len(text), max_len)
chunk_step_overlap(k, n) == IF n > 1 THEN k + n - 1 ELSE k + n
chunk_step(k, n) == k + n

\* one iteration of the for loop: yield the fragment, advance i
ChunkYield ==
    /\ cpc = "iter" /\ i < Len(text)
    /\ out' = Append(out, chunk_fragment(text, i, max_len))
    /\ i' = chunk_step(i, max_len)
    /\ UNCHANGED <<text, max_len, cpc, normVars, reqVars>>

\* range exhausted: the generator returns
ChunkStop ==
    /\ cpc = "iter" /\ i >= Len(text)
    /\ cpc' = "done"
    /\ UNCHANGED <<text, max_len, i, out, normVars, reqVars>>

NextChunk == ChunkYield \/ ChunkStop

SpecChunk == InitChunk /\ [][NextChunk]_vars

\* C1: when chunk_text(T, n) is exhausted, the fragments concatenated in
\* order are exactly T, every fragment but the last has length n, the last
\* has length in 1..n, and nothing is yielded for the empty text.
C1_ChunksCoverText ==
    cpc = "done" =>
        /\ Flatten(out) = text
        /\ \A k \in 1..Len(out) :
              /\ k < Len(out) => Len(out[k]) = max_len
              /\ Len(out[k]) >= 1 /\ Len(out[k]) <= max_len
        /\ (text = <<>> => out = <<>>)

\* a text that is not a multiple of n, split into a full fragment and a
\* shorter last one
C1_Witness ==
    /\ cpc = "done" /\ Len(out) >= 2 /\ max_len >= 2
    /\ Len(out[Len(out)]) < max_len

-----------------------------------------------------------------------------
(* The Flask handlers pdf_directions and pdf_questions, one request from   *)
(* its arrival to its response.                                            *)

CHUNK_SIZE == 3000
DIRECTIONS_PAGES == 3
QUESTIONS_TEXT_LIMIT == 5000
QUESTIONS_WINDOW == 4000
QUESTIONS_PAGES == 5
PREVIEW_LEN == 200

MaxPages == 4
LongPageLen == 1600

DIRECTIONS == <<"D", "I", "R", "E", "C", "T", "I", "O", "N", "S">>
QUESTION_MARKER == <<"1", ".">>

\* what page.extract_text() gives for a page; <<>> is None or "".  The long
\* page lets a document outgrow the windows of the code.
PageTexts ==
    { <<>>,
      <<"x", "1">>,
      <<"1", "1", ".", "x">>,
      <<"D", "I", "R">> \o DIRECTIONS \o QUESTION_MARKER,
      DIRECTIONS \o [k \in 1..LongPageLen |-> "x"] }

\* what generate(...)['response'] can be
ModelOutputs ==
    { <<>>, <<"Here">>, D1, <<"Here", " ">> \o D1 \o D2, DUnquoted, DBadTypes,
      Deep, QFlat, Array(<<Q1, Q5>>) }

Bodies == {"absent", "not_object", "no_url", "empty_url", "bad_url", "good_url"}

ErrorResponse(status, message) ==
    [status |-> status, kind |-> "error", error |-> message]
SuccessResponse(key, parsed, preview) ==
    [status |-> 200, kind |-> "success", success |-> TRUE, key |-> key,
     records |-> parsed, chunk_preview |-> preview]

\* the page loop: for page in pdf.pages[:ceiling], append the page's text and
\* a newline when there is text, stop once full_text is longer than limit
RECURSIVE page_text(_, _, _, _, _)
page_text(pages, k, ceiling, limit, full) ==
    IF k > Min(Len(pages), ceiling) THEN full
    ELSE LET grown == IF pages[k] # <<>> THEN full \o pages[k] \o <<"\n">>
                      ELSE full
         IN IF Len(grown) > limit THEN grown
            ELSE page_text(pages, k + 1, ceiling, limit, grown)

\* chunk[:200] + "..." if len(chunk) > 200 else chunk
chunk_preview(c) ==
    IF Len(c) > PREVIEW_LEN THEN Slice(c, 0, PREVIEW_LEN) \o <<".", ".", ".">>
    ELSE c

\* start_idx = full_text.find("DIRECTIONS")
\* chunk = full_text[start_idx:start_idx + CHUNK_SIZE] if start_idx != -1
\*         else full_text[:CHUNK_SIZE]
directions_chunk_last(t) ==
    LET hits == {k \in 0..Len(t) : OccursAt(t, DIRECTIONS, k)}
    IN IF hits # {} THEN Slice(t, Greatest(hits), Greatest(hits) + CHUNK_SIZE)
       ELSE Slice(t, 0, CHUNK_SIZE)
directions_chunk(t) ==
    LET start_idx == find(t, DIRECTIONS)
    IN IF start_idx # -1 THEN Slice(t, start_idx, start_idx + CHUNK_SIZE)
       ELSE Slice(t, 0, CHUNK_SIZE)

\* if start_idx == -1: return 404
questions_not_found_falsy(start_idx) == start_idx = 0
questions_not_found(start_idx) == start_idx = -1

\* chunk = full_text[start_idx:start_idx + 4000]
questions_chunk(t, start_idx) == Slice(t, start_idx, start_idx + QUESTIONS_WINDOW)

Init ==
    /\ endpoint \in {"directions", "questions"}
    /\ body \in Bodies
    /\ pc = "start" /\ full_text = <<>> /\ chunk = <<>> /\ raw_output = <<>>
    /\ gen_raised = FALSE /\ fetched = FALSE /\ prompted = <<>>
    /\ fetch_calls = 0 /\ gen_calls = 0 /\ response = NoResponse
    /\ IdleChunk /\ IdleNorm

\* data = request.get_json(); url = data.get("url"); if not url: 400.
\* Without a JSON object there is nothing to call .get on: the handler's
\* except turns the exception into a 500.
read_request(ep) ==
    /\ pc = "start" /\ endpoint = ep
    /\ IF body \in {"absent", "not_object"}
       THEN pc' = "done" /\ response' = ErrorResponse(500, "AttributeError")
       ELSE IF body \in {"no_url", "empty_url"}
       THEN pc' = "done" /\ response' = ErrorResponse(400, "PDF URL is required")
       ELSE pc' = "fetch" /\ response' = response
    /\ UNCHANGED <<endpoint, body, full_text, chunk, raw_output, gen_raised,
                   fetched, prompted, fetch_calls, gen_calls, chunkVars, normVars>>

\* requests.get, raise_for_status, pdfplumber.open or extract_text raises
\* (always so for a url requests cannot use): the handler's except answers 500
download_fails(ep) ==
    /\ pc = "fetch" /\ endpoint = ep
    /\ fetch_calls' = fetch_calls + 1
    /\ pc' = "done" /\ response' = ErrorResponse(500, "RequestException")
    /\ UNCHANGED <<endpoint, body, full_text, chunk, raw_output, gen_raised,
                   fetched, prompted, gen_calls, chunkVars, normVars>>

\* the document arrives and the page loop builds full_text
download_succeeds(ep, ceiling, limit) ==
    /\ pc = "fetch" /\ endpoint = ep /\ body = "good_url"
    /\ fetch_calls' = fetch_calls + 1
    /\ \E pages \in SeqsUpTo(PageTexts, MaxPages) :
          full_text' = page_text(pages, 1, ceiling, limit, <<>>)
    /\ fetched' = TRUE /\ pc' = "anchor"
    /\ UNCHANGED <<endpoint, body, chunk, raw_output, gen_raised, prompted,
                   gen_calls, response, chunkVars, normVars>>

\* parse_pdf_chunk_with_ollama / parse_questions_with_ollama: one call of
\* generate; an exception is caught and "" returned
call_model(ep) ==
    /\ pc = "generate" /\ endpoint = ep
    /\ gen_calls' = gen_calls + 1
    /\ prompted' = chunk
    /\ \/ gen_raised' = TRUE /\ raw_output' = <<>>
       \/ gen_raised' = FALSE /\ raw_output' \in ModelOutputs
    /\ pc' = "normalize"
    /\ UNCHANGED <<endpoint, body, full_text, chunk, fetched, fetch_calls,
                   response, chunkVars, normVars>>

\* parsed = extract_...(raw_output); return jsonify({...}), 200; an
\* exception out of the extraction reaches the handler's except: 500
respond(ep, key, parsed) ==
    /\ pc = "normalize" /\ endpoint = ep
    /\ response' = IF parsed.raised THEN ErrorResponse(500, parsed.exc)
                   ELSE SuccessResponse(key, parsed.value, chunk_preview(chunk))
    /\ pc' = "done"
    /\ UNCHANGED <<endpoint, body, full_text, chunk, raw_output, gen_raised,
                   fetched, prompted, fetch_calls, gen_calls, chunkVars, normVars>>

pdf_directions_request == read_request("directions")
pdf_directions_download_fails == download_fails("directions")
pdf_directions_download ==
    download_succeeds("directions", DIRECTIONS_PAGES, CHUNK_SIZE)

pdf_directions_anchor ==
    /\ pc = "anchor" /\ endpoint = "directions"
    /\ chunk' = directions_chunk(full_text)
    /\ pc' = "generate"
    /\ UNCHANGED <<endpoint, body, full_text, raw_output, gen_raised, fetched,
                   prompted, fetch_calls, gen_calls, response, chunkVars, normVars>>

pdf_directions_generate == call_model("directions")
pdf_directions_respond ==
    respond("directions", "directions", extract_json_objects(raw_output))

pdf_questions_request == read_request("questions")
pdf_questions_download_fails == download_fails("questions")
pdf_questions_download ==
    download_succeeds("questions", QUESTIONS_PAGES, QUESTIONS_TEXT_LIMIT)

pdf_questions_anchor ==
    /\ pc = "anchor" /\ endpoint = "questions"
    /\ LET start_idx == find(full_text, QUESTION_MARKER) IN
       IF questions_not_found(start_idx)
       THEN /\ response' = ErrorResponse(404, "No questions found in PDF")
            /\ pc' = "done" /\ chunk' = chunk
       ELSE /\ chunk' = questions_chunk(full_text, start_idx)
            /\ pc' = "generate" /\ response' = response
    /\ UNCHANGED <<endpoint, body, full_text, raw_output, gen_raised, fetched,
                   prompted, fetch_calls, gen_calls, chunkVars, normVars>>

pdf_questions_generate == call_model("questions")
pdf_questions_respond ==
    respond("questions", "questions", extract_json_array(raw_output))

Next ==
    \/ pdf_directions_request \/ pdf_directions_download_fails
    \/ pdf_directions_download \/ pdf_directions_anchor
    \/ pdf_directions_generate \/ pdf_directions_respond
    \/ pdf_questions_request \/ pdf_questions_download_fails
    \/ pdf_questions_download \/ pdf_questions_anchor
    \/ pdf_questions_generate \/ pdf_questions_respond

Spec == Init /\ [][Next]_vars

-----------------------------------------------------------------------------
(* Claims about the handlers *)

\* a model output holding no well-formed JSON object or array at all: no
\* stretch from an opening to a closing bracket parses
Malformed(s) ==
    \A a \in 1..Len(s), b \in 1..Len(s) :
        (a < b /\ s[a] \in {"{", "["} /\ s[b] \in {"}", "]"})
            => ~json_loads(SubSeq(s, a, b)).ok

QuestionMarkerIn(t) == \E k \in 1..(Len(t) - 1) : t[k] = "1" /\ t[k + 1] = "."

DirectionsOffsets(t) ==
    {k \in 0..Len(t) :
        /\ k + 10 <= Len(t)
        /\ SubSeq(t, k + 1, k + 10) = DIRECTIONS}

\* C7: once the model has been called, a call that raised or returned
\* malformed output is not retried and the request still succeeds: status
\* 200, success, no records.
C7_ModelFailureNeverFailsRequest ==
    (pc = "done" /\ gen_calls > 0 /\ (gen_raised \/ Malformed(raw_output))) =>
        /\ gen_calls = 1
        /\ response.status = 200
        /\ response.kind = "success"
        /\ response.records = <<>>

\* C8: on the questions path a fetched text without "1." is answered with
\* the not-found error (404), and the model is never called for it; a
\* success response implies that the marker was found.
C8_NoMarkerIsNotFound ==
    /\ (endpoint = "questions" /\ fetched /\ ~QuestionMarkerIn(full_text)) =>
          /\ gen_calls = 0
          /\ pc \in {"anchor", "done"}
          /\ pc = "done" => (response.status = 404 /\ response.kind = "error")
    /\ (endpoint = "questions" /\ response.status = 200) =>
          (fetched /\ QuestionMarkerIn(full_text) /\ response.kind = "success")

\* a fetched text with a "1" but no "1." was answered 404
C8_Witness ==
    /\ endpoint = "questions" /\ pc = "done" /\ fetched
    /\ \E k \in 1..Len(full_text) : full_text[k] = "1"
    /\ ~QuestionMarkerIn(full_text)
    /\ response.status = 404 /\ gen_calls = 0

\* C9: on the directions path the anchoring never ends the request, and the
\* fragment handed to the model is the slice of the text that starts at the
\* first "DIRECTIONS" (at offset 0 when there is none) and runs for
\* CHUNK_SIZE characters or to the end of the text.
C9_AnchorChunkIsSlice ==
    (endpoint = "directions" /\ fetched /\ pc # "anchor") =>
        LET offsets == DirectionsOffsets(full_text)
            start == IF offsets = {} THEN 0 ELSE Least(offsets)
        IN /\ gen_calls = 1 \/ pc = "generate"
           /\ gen_calls = 1 => prompted = chunk
           /\ Len(chunk) <= CHUNK_SIZE
           /\ Len(chunk) = Min(CHUNK_SIZE, Len(full_text) - start)
           /\ \A j \in 1..Len(chunk) : chunk[j] = full_text[start + j]

\* the marker first occurs past offset 0, occurs again later, and the text
\* runs beyond the window
C9_Witness ==
    /\ endpoint = "directions" /\ gen_calls = 1
    /\ Cardinality(DirectionsOffsets(full_text)) >= 2
    /\ Least(DirectionsOffsets(full_text)) > 0
    /\ Len(full_text) - Least(DirectionsOffsets(full_text)) > CHUNK_SIZE
    /\ Len(prompted) = CHUNK_SIZE

\* C10: a request without a usable locator is rejected with a 4xx status
\* before any work: no document fetch, no model call, never a 5xx.
C10_InvalidLocatorRejected ==
    body \in {"absent", "not_object", "no_url", "empty_url", "bad_url"} =>
        /\ fetch_calls = 0 /\ gen_calls = 0
        /\ pc = "done" => response.status \in 400..499

====
